---- MODULE Spec2Model ----
(***************************************************************************)
(* Model of video_clipper.py: the pipeline run by main() and the pure      *)
(* helpers detect_platform, generate_summary, format_date and the duration *)
(* rendering of create_obsidian_note.                                      *)
(*                                                                         *)
(* Python strings are modelled as sequences of one-character strings, so   *)
(* that substring tests, slicing, splitting and formatting are computed    *)
(* rather than assumed.                                                    *)
(***************************************************************************)
EXTENDS Integers, Sequences, FiniteSets, TLC

VARIABLES
    pc,          \* position of main(): "idle", a stage name, or "exited"
    runs,        \* number of invocations of main() started so far
    clock,       \* wall clock read by datetime.now(), seconds since 2024-01-01 00:00:00
    ticks,       \* number of clock advances so far (bounded)
    args,        \* parsed command line: url, keep_audio
    env,         \* what the external tools return in this run
    timestamp,   \* main(): timestamp = datetime.now()
    platform,    \* main(): platform
    temp,        \* the TemporaryDirectory: [exists, files]
    metadata,    \* download_video(): metadata
    transcript,  \* transcribe_audio(): return value
    summary,     \* generate_summary(): return value
    outDir,      \* files of the output directory: set of [name, content]
    written,     \* names of the output-directory files this run opened for writing
    exitCode,    \* <<status>> once the process has exited, <<>> while it runs
    stderr,      \* lines printed to sys.stderr by this run
    trace,       \* stages started in this run, in order
    completed,   \* stages that returned normally in this run, in order
    failed,      \* the step that raised in this run, or "none"
    note_path,   \* main(): note_path, None before the note is written
    notes,       \* log of the successful runs: args, env, note file name and content
    fn_in,       \* input of the pure function under test
    fn_out       \* <<result>> once the function was called, <<>> before

pipeVars == <<pc, runs, clock, ticks, args, env, timestamp, platform, temp, metadata,
              transcript, summary, outDir, written, exitCode, stderr, trace,
              completed, failed, note_path, notes>>
fnVars == <<fn_in, fn_out>>
vars == <<pc, runs, clock, ticks, args, env, timestamp, platform, temp, metadata,
          transcript, summary, outDir, written, exitCode, stderr, trace,
          completed, failed, note_path, notes, fn_in, fn_out>>

None == "None"

(***************************************************************************)
(* Bounds                                                                  *)
(***************************************************************************)
MaxRuns == 2
MaxTicks == 2
MaxHostParts == 2
MaxDateLen == 9
MaxDuration == 7325
MaxTextLen == 6
MaxSentences == 3

(***************************************************************************)
(* String helpers (Python str operations)                                  *)
(***************************************************************************)
\* s[a:b] with 0-based a, exclusive b, 0 <= a, clipped to the length of s
Slice(s, a, b) ==
    LET e == IF b < Len(s) THEN b ELSE Len(s)
    IN  IF a >= e THEN <<>> ELSE SubSeq(s, a + 1, e)

\* needle in s
Contains(s, needle) ==
    \E i \in 0..(Len(s) - Len(needle)) : Slice(s, i, i + Len(needle)) = needle

UpperChars == <<"T", "K", "C", "O", "M">>
LowerChars == <<"t", "k", "c", "o", "m">>

LowerChar(c) ==
    IF \E i \in 1..Len(UpperChars) : UpperChars[i] = c
    THEN LowerChars[CHOOSE i \in 1..Len(UpperChars) : UpperChars[i] = c]
    ELSE c

\* s.lower()
Lower(s) ==
    [i \in 1..Len(s) |-> LowerChar(s[i])]

\* index of the first character of s at 0-based position >= from that is in set,
\* or Len(s) when there is none
FindAny(s, set, from) ==
    IF \E i \in from..(Len(s) - 1) : s[i + 1] \in set
    THEN CHOOSE i \in from..(Len(s) - 1) :
            /\ s[i + 1] \in set
            /\ \A j \in from..(i - 1) : s[j + 1] \notin set
    ELSE Len(s)

RECURSIVE Concat(_)
Concat(ss) ==
    IF ss = <<>> THEN <<>> ELSE Head(ss) \o Concat(Tail(ss))

W_https ==
    <<"h","t","t","p","s",":","/","/">>
W_tiktok ==
    <<"t","i","k","t","o","k">>
W_tiktok_com ==
    <<"t","i","k","t","o","k",".","c","o","m">>
W_youtube_com ==
    <<"y","o","u","t","u","b","e",".","c","o","m">>
W_youtu_be ==
    <<"y","o","u","t","u",".","b","e">>
W_instagram_com ==
    <<"i","n","s","t","a","g","r","a","m",".","c","o","m">>
W_reel ==
    <<"/","r","e","e","l">>
W_www ==
    <<"w","w","w",".">>
W_TikTok_COM ==
    <<"T","i","k","T","o","k",".","C","O","M">>
W_tik ==
    <<"t","i","k">>
W_tok_io ==
    <<"t","o","k",".","i","o">>
W_example_org ==
    <<"e","x","a","m","p","l","e",".","o","r","g">>
W_youtube ==
    <<"y","o","u","t","u","b","e">>
W_dot_com ==
    <<".","c","o","m">>
W_user_at ==
    <<"t","i","k","t","o","k","@">>
W_port ==
    <<":","4","4","3">>
W_path_reel ==
    <<"/","r","e","e","l","/","a","b","c">>
W_path_p ==
    <<"/","p","/","a","b","c">>
W_path_tiktok ==
    <<"/","t","i","k","t","o","k",".","c","o","m">>
W_query ==
    <<"?","u","=","y","o","u","t","u",".","b","e">>

(***************************************************************************)
(* detect_platform                                                         *)
(***************************************************************************)
AlphaChars ==
    {"h", "t", "p", "s", "i", "k", "o", "y", "u", "b", "e", "c", "m", "n", "a", "g", "r",
     "w", "x", "l", "v", "T", "K", "C", "O", "M"}

SchemeChars ==
    {"h", "t", "p", "s", "i", "k", "o", "y", "u", "b", "e", "c", "m", "n", "a", "g", "r",
     "w", "x", "l", "v", "T", "K", "C", "O", "M", "4", "3", "."}

\* urllib.parse.urlparse(url): the scheme is split off at the first ":" when
\* everything before it is scheme characters; the netloc is present only when
\* the rest starts with "//", and runs up to the first "/", "?" or "#"; the
\* path runs up to the first "?" or "#".
urlparse(url) ==
    LET i == FindAny(url, {":"}, 0)
        hasScheme == /\ i > 0
                     /\ i < Len(url)
                     /\ url[1] \in AlphaChars
                     /\ \A j \in 1..i : url[j] \in SchemeChars
        rest == IF hasScheme THEN Slice(url, i + 1, Len(url)) ELSE url
        hasNetloc == Slice(rest, 0, 2) = <<"/", "/">>
        delim == FindAny(rest, {"/", "?", "#"}, 2)
        afterNetloc == IF hasNetloc THEN Slice(rest, delim, Len(rest)) ELSE rest
    IN  [scheme |-> IF hasScheme THEN Lower(Slice(url, 0, i)) ELSE <<>>,
         netloc |-> IF hasNetloc THEN Slice(rest, 2, delim) ELSE <<>>,
         path   |-> Slice(afterNetloc, 0, FindAny(afterNetloc, {"?", "#"}, 0))]

Platforms == {"tiktok", "youtube", "reel"}

detect_platform(url) ==
    LET parsed == urlparse(url)
        domain == Lower(parsed.netloc)
        path   == Lower(parsed.path)
    IN  IF Contains(domain, W_tiktok_com) \/ Contains(domain, W_tiktok)
        THEN [ok |-> TRUE, value |-> "tiktok"]
        ELSE IF Contains(domain, W_youtube_com) \/ Contains(domain, W_youtu_be)
        THEN [ok |-> TRUE, value |-> "youtube"]
        ELSE IF Contains(domain, W_instagram_com) /\ Contains(path, W_reel)
        THEN [ok |-> TRUE, value |-> "reel"]
        ELSE IF Contains(domain, W_instagram_com)
        THEN [ok |-> TRUE, value |-> "reel"]
        ELSE [ok |-> FALSE, exc |-> "ValueError", url |-> url]

(***************************************************************************)
(* Number and time formatting                                              *)
(***************************************************************************)
DigitChars == <<"0", "1", "2", "3", "4", "5", "6", "7", "8", "9">>

Digit(n) == DigitChars[n + 1]

\* str(n) for n >= 0
RECURSIVE Dec(_)
Dec(n) ==
    IF n < 10 THEN <<Digit(n)>> ELSE Dec(n \div 10) \o <<Digit(n % 10)>>

\* f"{n:02d}" for n >= 0: at least two digits, zero-padded
Pad2(n) ==
    IF n < 10 THEN <<"0", Digit(n)>> ELSE Dec(n)

\* The clock counts seconds from 2024-01-01 00:00:00 and stays within January 2024.
SecondsPerDay == 24 * 60 * 60

W_2024_01 ==
    <<"2","0","2","4","-","0","1","-">>

\* the fields %Y-%m-%d of t
DatePart(t) ==
    W_2024_01 \o Pad2((t \div SecondsPerDay) + 1)

\* the fields %H, %M, %S of t joined by sep
TimePart(t, sep) ==
    LET sod == t % SecondsPerDay
    IN  Pad2(sod \div 3600) \o sep \o Pad2((sod % 3600) \div 60) \o sep \o Pad2(sod % 60)

(***************************************************************************)
(* format_date                                                             *)
(***************************************************************************)
\* date_str is <<>> for "" ; now is the value of datetime.now()
format_date(date_str, now) ==
    IF date_str # <<>> /\ Len(date_str) = 8
    THEN Slice(date_str, 0, 4) \o <<"-">> \o Slice(date_str, 4, 6) \o <<"-">> \o Slice(date_str, 6, 8)
    ELSE DatePart(now)

(***************************************************************************)
(* duration rendering of create_obsidian_note                              *)
(***************************************************************************)
W_Unknown ==
    <<"U","n","k","n","o","w","n">>

\* duration_str with the minutes taken from the whole duration instead of the
\* remainder of the hours
duration_str_NoRemainder(duration) ==
    IF duration # 0
    THEN LET hours   == duration \div 3600
             minutes == duration \div 60
             seconds == duration % 60
         IN  IF hours # 0
             THEN Pad2(hours) \o <<":">> \o Pad2(minutes) \o <<":">> \o Pad2(seconds)
             ELSE Pad2(minutes) \o <<":">> \o Pad2(seconds)
    ELSE W_Unknown

duration_str(duration) ==
    IF duration # 0
    THEN LET hours     == duration \div 3600
             remainder == duration % 3600
             minutes   == remainder \div 60
             seconds   == remainder % 60
         IN  IF hours # 0
             THEN Pad2(hours) \o <<":">> \o Pad2(minutes) \o <<":">> \o Pad2(seconds)
             ELSE Pad2(minutes) \o <<":">> \o Pad2(seconds)
    ELSE W_Unknown

(***************************************************************************)
(* generate_summary                                                        *)
(***************************************************************************)
Punct == {".", "!", "?"}
Whitespace == {" ", "\n"}

\* end (0-based, exclusive) of the run of whitespace that starts at i
RECURSIVE SkipWhitespace(_, _)
SkipWhitespace(s, i) ==
    IF i < Len(s) /\ s[i + 1] \in Whitespace THEN SkipWhitespace(s, i + 1) ELSE i

\* re.split(r"(?<=[.!?])\s+", s): scan from i, the current piece starts at start
RECURSIVE SplitFrom(_, _, _)
SplitFrom(s, start, i) ==
    IF i >= Len(s)
    THEN <<Slice(s, start, Len(s))>>
    ELSE IF i > 0 /\ s[i] \in Punct /\ s[i + 1] \in Whitespace
    THEN LET j == SkipWhitespace(s, i)
         IN  <<Slice(s, start, i)>> \o SplitFrom(s, j, j)
    ELSE SplitFrom(s, start, i + 1)

re_split(s) ==
    SplitFrom(s, 0, 0)

\* " ".join(parts)
RECURSIVE JoinSpace(_)
JoinSpace(parts) ==
    IF parts = <<>> THEN <<>>
    ELSE IF Len(parts) = 1 THEN parts[1]
    ELSE parts[1] \o <<" ">> \o JoinSpace(Tail(parts))

Min(a, b) == IF a < b THEN a ELSE b

\* generate_summary with a slice that is one sentence too long
generate_summary_OffByOne(text, max_sentences) ==
    LET sentences == re_split(text)
        summary_sentences == SubSeq(sentences, 1, Min(max_sentences + 1, Len(sentences)))
    IN  JoinSpace(summary_sentences)

generate_summary(text, max_sentences) ==
    LET sentences == re_split(text)
        summary_sentences == SubSeq(sentences, 1, Min(max_sentences, Len(sentences)))
    IN  JoinSpace(summary_sentences)

(***************************************************************************)
(* The pipeline: inputs                                                    *)
(***************************************************************************)
UrlYoutube ==
    <<"h","t","t","p","s",":","/","/","y","o","u","t","u",".","b","e","/","a","b","c">>
UrlOther ==
    <<"h","t","t","p","s",":","/","/","e","x","a","m","p","l","e",".","o","r","g","/","a","b","c">>
W_date_2024 ==
    <<"2","0","2","4","0","1","0","1">>
W_transcript ==
    <<"O","n","e","."," ","T","w","o","."," ","T","h","r","e","e",".","\n">>
W_title ==
    <<"T","\"">>
W_uploader ==
    <<"U">>
W_video_clip_md ==
    <<"-","v","i","d","e","o","-","c","l","i","p",".","m","d">>
W_video_clip_mp3 ==
    <<"-","v","i","d","e","o","-","c","l","i","p",".","m","p","3">>

\* a key of the JSON object printed by yt-dlp: absent, or present with a value
Absent == [present |-> FALSE]
Some(v) == [present |-> TRUE, value |-> v]

\* dict.get(key, default)
Get(entry, default) ==
    IF entry.present THEN entry.value ELSE default

Urls == {UrlYoutube, UrlOther}

Infos ==
    {[title |-> Some(W_title), uploader |-> Some(W_uploader), upload_date |-> d,
      duration |-> Some(65)] :
        d \in {Absent, Some(W_date_2024)}}

\* what the external tools of one run return: the JSON of yt-dlp and the text
\* of whisper-cpp
Envs ==
    {[info |-> i, text |-> W_transcript] : i \in Infos}

TickSteps == {1, 43200}

StageOrder ==
    <<"detect_platform", "download_video", "transcribe_audio", "generate_summary",
      "create_obsidian_note">>

(***************************************************************************)
(* The pipeline: helpers                                                   *)
(***************************************************************************)
\* s.strip()
RECURSIVE Strip(_)
Strip(s) ==
    IF s = <<>> THEN s
    ELSE IF s[1] \in Whitespace THEN Strip(Tail(s))
    ELSE IF s[Len(s)] \in Whitespace THEN Strip(SubSeq(s, 1, Len(s) - 1))
    ELSE s

\* s.replace('"', "'")
ReplaceQuote(s) ==
    [i \in 1..Len(s) |-> IF s[i] = "\"" THEN "'" ELSE s[i]]

\* open(name, "w") followed by a complete write
WriteFile(fs, name, content) ==
    {f \in fs : f.name # name} \cup {[name |-> name, content |-> content]}

FileNames(fs) == {f.name : f \in fs}

\* a scratch directory made with mkdtemp and never removed
Cleanup_Leak(t) ==
    t

\* TemporaryDirectory.__exit__: the directory and everything in it is removed
Cleanup(t) ==
    [exists |-> FALSE, files |-> {}]

\* the note file name without the seconds field
NoteFilename_NoSeconds(ts) ==
    LET sod == ts % SecondsPerDay
    IN  DatePart(ts) \o <<"-">> \o Pad2(sod \div 3600) \o <<"-">> \o Pad2((sod % 3600) \div 60)
          \o W_video_clip_md

\* timestamp.strftime("%Y-%m-%d-%H-%M-%S-video-clip.md")
NoteFilename(ts) ==
    DatePart(ts) \o <<"-">> \o TimePart(ts, <<"-">>) \o W_video_clip_md

\* the audio file name rendered from a second datetime.now()
AudioFilename_Now(ts) ==
    DatePart(clock) \o <<"-">> \o TimePart(clock, <<"-">>) \o W_video_clip_mp3

\* timestamp.strftime("%Y-%m-%d-%H-%M-%S-video-clip.mp3")
AudioFilename(ts) ==
    DatePart(ts) \o <<"-">> \o TimePart(ts, <<"-">>) \o W_video_clip_mp3

\* timestamp.strftime("%Y-%m-%d %H:%M:%S")
CreatedDate(ts) ==
    DatePart(ts) \o <<" ">> \o TimePart(ts, <<":">>)

\* the text rendered by create_obsidian_note, field by field; now is the clock
\* at the time of the call (format_date reads it)
NoteContent(url, plat, meta, text, summ, ts, now) ==
    [kind        |-> "note",
     complete    |-> TRUE,
     title       |-> ReplaceQuote(meta.title),
     platform    |-> plat,
     creator     |-> ReplaceQuote(meta.uploader),
     upload_date |-> format_date(meta.upload_date, now),
     duration    |-> duration_str(meta.duration),
     source_url  |-> url,
     created     |-> CreatedDate(ts),
     tags        |-> <<"video-clip", plat>>,
     heading     |-> meta.title,
     summary     |-> summ,
     transcript  |-> text]

\* a file that was opened for writing and not written completely
PartialContent(kind) ==
    [kind |-> kind, complete |-> FALSE]

AudioContent ==
    [kind |-> "audio", complete |-> TRUE]

\* the except clauses of main() with the sys.exit(1) of the second one missing
Handle_NoExit(exc, msg) ==
    IF exc = "ValueError"
    THEN /\ stderr' = Append(stderr, [prefix |-> "Error: ", text |-> msg])
         /\ exitCode' = <<1>>
    ELSE /\ stderr' = Append(stderr, [prefix |-> "Error: ", text |-> msg])
         /\ exitCode' = <<0>>

\* the except clauses of main(): both print the message and exit with status 1
Handle(exc, msg) ==
    IF exc = "ValueError"
    THEN /\ stderr' = Append(stderr, [prefix |-> "Error: ", text |-> msg])
         /\ exitCode' = <<1>>
    ELSE /\ stderr' = Append(stderr, [prefix |-> "Error: ", text |-> msg])
         /\ exitCode' = <<1>>

\* an exception raised by step inside the try block, with leftover files in
\* the scratch directory: the with block (if entered) is left, then the
\* except clause runs and the process exits
Raise(step, exc, msg, leftovers) ==
    /\ failed' = step
    /\ temp' = IF temp.exists
               THEN Cleanup([exists |-> TRUE, files |-> temp.files \cup leftovers])
               ELSE temp
    /\ Handle(exc, msg)
    /\ pc' = "exited"

(***************************************************************************)
(* The pipeline: state and steps of main()                                 *)
(***************************************************************************)
NoTemp == [exists |-> FALSE, files |-> {}]
NoArgs == [url |-> <<>>, keep_audio |-> FALSE]
NoEnv == [info |-> [title |-> Absent, uploader |-> Absent, upload_date |-> Absent,
                    duration |-> Absent],
          text |-> <<>>]
NoMetadata == [title |-> <<>>, uploader |-> <<>>, upload_date |-> <<>>, duration |-> 0]

PipeInit ==
    /\ pc = "idle"
    /\ runs = 0
    /\ clock = 0
    /\ ticks = 0
    /\ args = NoArgs
    /\ env = NoEnv
    /\ timestamp = 0
    /\ platform = None
    /\ temp = NoTemp
    /\ metadata = NoMetadata
    /\ transcript = <<>>
    /\ summary = <<>>
    /\ outDir = {}
    /\ written = {}
    /\ exitCode = <<>>
    /\ stderr = <<>>
    /\ trace = <<>>
    /\ completed = <<>>
    /\ failed = "none"
    /\ note_path = <<>>
    /\ notes = <<>>

Init ==
    /\ PipeInit
    /\ fn_in = None
    /\ fn_out = <<>>

\* the wall clock advances while the program runs and between runs
Tick ==
    /\ ticks < MaxTicks
    /\ \E d \in TickSteps : clock' = clock + d
    /\ ticks' = ticks + 1
    /\ UNCHANGED <<pc, runs, args, env, timestamp, platform, temp, metadata, transcript,
                   summary, outDir, written, exitCode, stderr, trace, completed, failed,
                   note_path, notes, fn_in, fn_out>>

\* main() is invoked: the arguments are parsed and the timestamp is taken
StartRun ==
    /\ pc \in {"idle", "exited"}
    /\ runs < MaxRuns
    /\ \E u \in Urls, k \in BOOLEAN, e \in Envs :
          /\ args' = [url |-> u, keep_audio |-> k]
          /\ env' = e
    /\ runs' = runs + 1
    /\ timestamp' = clock
    /\ platform' = None
    /\ temp' = NoTemp
    /\ metadata' = NoMetadata
    /\ transcript' = <<>>
    /\ summary' = <<>>
    /\ written' = {}
    /\ exitCode' = <<>>
    /\ stderr' = <<>>
    /\ trace' = <<>>
    /\ completed' = <<>>
    /\ failed' = "none"
    /\ note_path' = <<>>
    /\ pc' = "detect"
    /\ UNCHANGED <<clock, ticks, outDir, notes, fn_in, fn_out>>

\* platform = detect_platform(args.url)
DetectPlatformStep ==
    /\ pc = "detect"
    /\ trace' = Append(trace, "detect_platform")
    /\ LET r == detect_platform(args.url)
       IN  IF r.ok
           THEN /\ platform' = r.value
                /\ completed' = Append(completed, "detect_platform")
                /\ pc' = "mkdtemp"
                /\ UNCHANGED <<temp, exitCode, stderr, failed>>
           ELSE /\ Raise("detect_platform", r.exc, "Unsupported platform for URL", {})
                /\ UNCHANGED <<platform, completed>>
    /\ UNCHANGED <<runs, clock, ticks, args, env, timestamp, metadata, transcript, summary,
                   outDir, written, note_path, notes, fn_in, fn_out>>

\* with tempfile.TemporaryDirectory() as temp_dir
EnterTemp ==
    /\ pc = "mkdtemp"
    /\ \/ /\ temp' = [exists |-> TRUE, files |-> {}]
          /\ pc' = "download"
          /\ UNCHANGED <<exitCode, stderr, failed>>
       \/ Raise("mkdtemp", "OSError", "cannot create temporary directory", {})
    /\ UNCHANGED <<runs, clock, ticks, args, env, timestamp, platform, metadata, transcript,
                   summary, outDir, written, trace, completed, note_path, notes,
                   fn_in, fn_out>>

\* download_video called again after a failure
DownloadVideo_Retry ==
    /\ pc = "download"
    /\ trace' = Append(trace, "download_video")
    /\ \/ /\ temp' = [temp EXCEPT !.files = @ \cup {"id.mp3"}]
          /\ metadata' = [title       |-> Get(env.info.title, <<"U","n","t","i","t","l","e","d">>),
                          uploader    |-> Get(env.info.uploader, W_Unknown),
                          upload_date |-> Get(env.info.upload_date, <<>>),
                          duration    |-> Get(env.info.duration, 0)]
          /\ completed' = Append(completed, "download_video")
          /\ pc' = "convert"
       \/ /\ Len(trace) < 3
          /\ UNCHANGED <<temp, metadata, completed, pc>>
    /\ UNCHANGED <<runs, clock, ticks, args, env, timestamp, platform, transcript, summary,
                   outDir, written, exitCode, stderr, failed, note_path, notes,
                   fn_in, fn_out>>

\* audio_path, metadata = download_video(args.url, temp_dir)
DownloadVideo ==
    /\ pc = "download"
    /\ trace' = Append(trace, "download_video")
    /\ \/ /\ temp' = [temp EXCEPT !.files = @ \cup {"id.mp3"}]
          /\ metadata' = [title       |-> Get(env.info.title, <<"U","n","t","i","t","l","e","d">>),
                          uploader    |-> Get(env.info.uploader, W_Unknown),
                          upload_date |-> Get(env.info.upload_date, <<>>),
                          duration    |-> Get(env.info.duration, 0)]
          /\ completed' = Append(completed, "download_video")
          /\ pc' = "convert"
          /\ UNCHANGED <<exitCode, stderr, failed>>
       \/ /\ \E left \in SUBSET {"id.webm", "id.mp3"} :
                Raise("download_video", "CalledProcessError", "yt-dlp failed", left)
          /\ UNCHANGED <<metadata, completed>>
    /\ UNCHANGED <<runs, clock, ticks, args, env, timestamp, platform, transcript, summary,
                   outDir, written, note_path, notes, fn_in, fn_out>>

\* transcribe_audio, first part: ffmpeg converts the MP3 to WAV
ConvertAudio ==
    /\ pc = "convert"
    /\ trace' = Append(trace, "transcribe_audio")
    /\ \/ /\ temp' = [temp EXCEPT !.files = @ \cup {"id.wav"}]
          /\ pc' = "model"
          /\ UNCHANGED <<exitCode, stderr, failed>>
       \/ \E left \in SUBSET {"id.wav"} :
             Raise("transcribe_audio", "CalledProcessError", "ffmpeg failed", left)
    /\ UNCHANGED <<runs, clock, ticks, args, env, timestamp, platform, metadata, transcript,
                   summary, outDir, written, completed, note_path, notes, fn_in, fn_out>>

\* transcribe_audio, second part: the model file is looked up
FindModel ==
    /\ pc = "model"
    /\ \/ /\ pc' = "whisper"
          /\ UNCHANGED <<temp, exitCode, stderr, failed>>
       \/ Raise("transcribe_audio", "FileNotFoundError",
                "Whisper model not found. Please download it: curl ...", {})
    /\ UNCHANGED <<runs, clock, ticks, args, env, timestamp, platform, metadata, transcript,
                   summary, outDir, written, trace, completed, note_path, notes,
                   fn_in, fn_out>>

\* transcribe_audio, third part: whisper-cpp runs, its text is read from the
\* sidecar file if it wrote one (the file is then removed) or from stdout, and
\* the WAV file is removed
RunWhisper ==
    /\ pc = "whisper"
    /\ \/ /\ transcript' = Strip(env.text)
          /\ temp' = [temp EXCEPT !.files = @ \ {"id.wav.txt", "id.wav"}]
          /\ completed' = Append(completed, "transcribe_audio")
          /\ pc' = "summary"
          /\ UNCHANGED <<exitCode, stderr, failed>>
       \/ /\ \E left \in SUBSET {"id.wav.txt"} :
                Raise("transcribe_audio", "CalledProcessError", "whisper-cpp failed", left)
          /\ UNCHANGED <<transcript, completed>>
    /\ UNCHANGED <<runs, clock, ticks, args, env, timestamp, platform, metadata, summary,
                   outDir, written, trace, note_path, notes, fn_in, fn_out>>

\* summary = generate_summary(transcript)
GenerateSummaryStep ==
    /\ pc = "summary"
    /\ trace' = Append(trace, "generate_summary")
    /\ summary' = generate_summary(transcript, 2)
    /\ completed' = Append(completed, "generate_summary")
    /\ pc' = "note"
    /\ UNCHANGED <<runs, clock, ticks, args, env, timestamp, platform, temp, metadata,
                   transcript, outDir, written, exitCode, stderr, failed, note_path, notes,
                   fn_in, fn_out>>

\* note_path = create_obsidian_note(...): the directory is made, the file is
\* opened for writing (created or truncated) and the text is written
CreateNote ==
    /\ pc = "note"
    /\ trace' = Append(trace, "create_obsidian_note")
    /\ LET name == NoteFilename(timestamp)
           content == NoteContent(args.url, platform, metadata, transcript, summary,
                                  timestamp, clock)
       IN  \/ /\ outDir' = WriteFile(outDir, name, content)
              /\ written' = written \cup {name}
              /\ note_path' = name
              /\ completed' = Append(completed, "create_obsidian_note")
              /\ pc' = "keep"
              /\ UNCHANGED <<temp, exitCode, stderr, failed>>
           \/ /\ Raise("create_obsidian_note", "OSError", "cannot create or open the note", {})
              /\ UNCHANGED <<outDir, written, note_path, completed>>
           \/ /\ outDir' = WriteFile(outDir, name, PartialContent("note"))
              /\ written' = written \cup {name}
              /\ Raise("create_obsidian_note", "OSError", "cannot write the note", {})
              /\ UNCHANGED <<note_path, completed>>
    /\ UNCHANGED <<runs, clock, ticks, args, env, timestamp, platform, metadata, transcript,
                   summary, notes, fn_in, fn_out>>

\* if args.keep_audio: shutil.copy(audio_path, audio_dest)
KeepAudio ==
    /\ pc = "keep"
    /\ LET name == AudioFilename(timestamp)
       IN  IF args.keep_audio
           THEN \/ /\ outDir' = WriteFile(outDir, name, AudioContent)
                   /\ written' = written \cup {name}
                   /\ pc' = "finish"
                   /\ UNCHANGED <<temp, exitCode, stderr, failed>>
                \/ /\ Raise("keep_audio", "OSError", "cannot open the audio copy", {})
                   /\ UNCHANGED <<outDir, written>>
                \/ /\ outDir' = WriteFile(outDir, name, PartialContent("audio"))
                   /\ written' = written \cup {name}
                   /\ Raise("keep_audio", "OSError", "cannot write the audio copy", {})
           ELSE /\ pc' = "finish"
                /\ UNCHANGED <<outDir, written, temp, exitCode, stderr, failed>>
    /\ UNCHANGED <<runs, clock, ticks, args, env, timestamp, platform, metadata, transcript,
                   summary, trace, completed, note_path, notes, fn_in, fn_out>>

\* the with block is left normally and main() returns
Finish ==
    /\ pc = "finish"
    /\ temp' = Cleanup(temp)
    /\ exitCode' = <<0>>
    /\ notes' = Append(notes, [args |-> args, env |-> env, timestamp |-> timestamp,
                               name |-> note_path,
                               content |-> (CHOOSE f \in outDir : f.name = note_path).content])
    /\ pc' = "exited"
    /\ UNCHANGED <<runs, clock, ticks, args, env, timestamp, platform, metadata, transcript,
                   summary, outDir, written, stderr, trace, completed, failed, note_path,
                   fn_in, fn_out>>

Next ==
    \/ Tick
    \/ StartRun
    \/ DetectPlatformStep
    \/ EnterTemp
    \/ DownloadVideo
    \/ ConvertAudio
    \/ FindModel
    \/ RunWhisper
    \/ GenerateSummaryStep
    \/ CreateNote
    \/ KeepAudio
    \/ Finish

Spec == Init /\ [][Next]_vars

(***************************************************************************)
(* Specifications of the pure functions: the input is drawn in the initial *)
(* state and one step applies the function.                                *)
(***************************************************************************)
HostParts ==
    {W_tiktok_com, W_TikTok_COM, W_tik, W_tok_io, W_www, W_youtube_com, W_youtube,
     W_dot_com, W_youtu_be, W_instagram_com, W_example_org}

Hosts ==
    UNION {{Concat(ps) : ps \in [1..n -> HostParts]} : n \in 1..MaxHostParts}

DetectInputs ==
    {scheme \o user \o host \o port \o path :
        scheme \in {W_https, <<>>}, user \in {<<>>, W_user_at}, host \in Hosts,
        port \in {<<>>, W_port},
        path \in {<<>>, W_path_reel, W_path_p, W_path_tiktok, W_query}}

InitDetect ==
    /\ PipeInit
    /\ fn_in \in DetectInputs
    /\ fn_out = <<>>

ApplyDetect ==
    /\ fn_out = <<>>
    /\ fn_out' = <<detect_platform(fn_in)>>
    /\ UNCHANGED <<fn_in, pipeVars>>

SpecDetect == InitDetect /\ [][ApplyDetect]_vars

DateAlphabet == {"0", "1", "x"}

W_date_ok ==
    <<"2","0","2","3","0","6","1","5">>

DateStrings ==
    {W_date_ok} \cup UNION {[1..n -> DateAlphabet] : n \in 0..MaxDateLen}

InitDate ==
    /\ PipeInit
    /\ fn_in \in {[date_str |-> d, now |-> t] : d \in DateStrings, t \in {0, 3 * SecondsPerDay + 5}}
    /\ fn_out = <<>>

ApplyDate ==
    /\ fn_out = <<>>
    /\ fn_out' = <<format_date(fn_in.date_str, fn_in.now)>>
    /\ UNCHANGED <<fn_in, pipeVars>>

SpecDate == InitDate /\ [][ApplyDate]_vars

InitDuration ==
    /\ PipeInit
    /\ fn_in \in {Absent} \cup {Some(d) : d \in 0..MaxDuration}
    /\ fn_out = <<>>

\* duration = metadata.get("duration", 0), then the rendering
ApplyDuration ==
    /\ fn_out = <<>>
    /\ fn_out' = <<duration_str(Get(fn_in, 0))>>
    /\ UNCHANGED <<fn_in, pipeVars>>

SpecDuration == InitDuration /\ [][ApplyDuration]_vars

TextAlphabet == {"a", ".", "?", " ", "\n"}

W_example ==
    <<"H","e","l","l","o"," ","w","o","r","l","d","."," ","T","h","i","s"," ","i","s"," ","a"," ","t","e","s","t","."," ","A","n","d"," ","m","o","r","e",".">>
W_example_summary ==
    <<"H","e","l","l","o"," ","w","o","r","l","d","."," ","T","h","i","s"," ","i","s"," ","a"," ","t","e","s","t",".">>

Texts ==
    {W_example} \cup UNION {[1..n -> TextAlphabet] : n \in 0..MaxTextLen}

\* max_sentences is the default 2 when the caller passes none
InitSummary ==
    /\ PipeInit
    /\ fn_in \in {[text |-> t, max_sentences |-> n] : t \in Texts, n \in {Absent} \cup {Some(k) : k \in 0..MaxSentences}}
    /\ fn_out = <<>>

ApplySummary ==
    /\ fn_out = <<>>
    /\ fn_out' = <<generate_summary(fn_in.text, Get(fn_in.max_sentences, 2))>>
    /\ UNCHANGED <<fn_in, pipeVars>>

SpecSummary == InitSummary /\ [][ApplySummary]_vars

(***************************************************************************)
(* Properties                                                              *)
(***************************************************************************)
Exited == pc = "exited"

NoteFile(fs, name) == CHOOSE f \in fs : f.name = name

\* the first 19 characters of a file name: YYYY-MM-DD-HH-MM-SS
Stem(name) == SubSeq(name, 1, 19)

IsNoteName(name) == SubSeq(name, 20, Len(name)) = W_video_clip_md
IsAudioName(name) == SubSeq(name, 20, Len(name)) = W_video_clip_mp3

\* C1: a run that has terminated either exited with status 0 and its note
\* file is written, or exited with a non-zero status and wrote no file (no
\* note, no audio) to the output directory.
C1_NoPartialSuccess ==
    Exited =>
        \/ /\ exitCode = <<0>>
           /\ note_path \in FileNames(outDir)
           /\ NoteFile(outDir, note_path).content.complete
        \/ /\ exitCode # <<>>
           /\ exitCode # <<0>>
           /\ written = {}

\* C2: once the run has terminated, on every exit path, the scratch
\* directory does not exist and none of the files left in it exists.
C2_ScratchRemoved ==
    Exited => (~temp.exists /\ temp.files = {})

\* a run that failed while whisper-cpp ran, with the scratch directory made
C2_Witness ==
    /\ Exited
    /\ failed = "transcribe_audio"
    /\ Len(trace) = 3
    /\ stderr[1].text = "whisper-cpp failed"

\* C3: the exit status is 0 exactly when every stage (and the audio copy, if
\* requested) succeeded and 1 whenever a step failed, and every failing run
\* has printed a message to the error stream.
C3_ExitCode ==
    Exited =>
        /\ exitCode \in {<<0>>, <<1>>}
        /\ (exitCode = <<0>>) <=> (failed = "none" /\ completed = StageOrder)
        /\ (failed # "none") => (exitCode = <<1>> /\ Len(stderr) >= 1)
        /\ (exitCode = <<0>> /\ args.keep_audio) =>
               \E f \in outDir : f.name \in written /\ f.content = AudioContent

\* a run that failed while the note was written
C3_Witness ==
    /\ Exited
    /\ failed = "create_obsidian_note"
    /\ exitCode = <<1>>

IsPrefix(a, b) ==
    /\ Len(a) <= Len(b)
    /\ a = SubSeq(b, 1, Len(a))

\* C4: the stages start in the order detection, acquisition, transcription,
\* summarization, note composition, each at most once; a stage starts only
\* when every earlier stage has returned normally; after a failure no
\* further stage starts.
C4_StageOrder ==
    /\ IsPrefix(trace, StageOrder)
    /\ IsPrefix(completed, trace)
    /\ Len(trace) - Len(completed) <= 1
    /\ failed \in {"detect_platform", "download_video", "transcribe_audio",
                   "generate_summary", "create_obsidian_note"} =>
          /\ Exited
          /\ trace # <<>>
          /\ trace[Len(trace)] = failed
          /\ Len(completed) = Len(trace) - 1
    /\ failed = "keep_audio" => (Exited /\ completed = StageOrder)
    /\ failed = "mkdtemp" => (Exited /\ trace = <<"detect_platform">>)

\* a run that stopped at the failed download
C4_Witness ==
    /\ Exited
    /\ failed = "download_video"
    /\ trace = <<"detect_platform", "download_video">>
    /\ completed = <<"detect_platform">>

SameExceptCreated(c, d) ==
    [c EXCEPT !.created = <<>>] = [d EXCEPT !.created = <<>>]

SameExceptCreatedAndUploadDate(c, d) ==
    [c EXCEPT !.created = <<>>, !.upload_date = <<>>] =
    [d EXCEPT !.created = <<>>, !.upload_date = <<>>]

SameInputs(r, q) ==
    /\ r.args.url = q.args.url
    /\ r.env = q.env

\* C8: any two successful runs with the same URL and identical tool outputs
\* leave notes under different file names, with identical content except for
\* the created field.
C8_Idempotence ==
    \A i, j \in DOMAIN notes :
        (i < j /\ SameInputs(notes[i], notes[j])) =>
            /\ notes[i].name # notes[j].name
            /\ SameExceptCreated(notes[i].content, notes[j].content)

\* C8 (amended): two successful runs with the same URL and identical tool
\* outputs leave notes under different file names when their timestamps
\* fall in different seconds, and under the same name otherwise; the
\* contents are identical except for the created field and, when the
\* metadata has no upload date of 8 characters, the upload_date field.
C8_IdempotenceAmended ==
    \A i, j \in DOMAIN notes :
        (i < j /\ SameInputs(notes[i], notes[j])) =>
            /\ (notes[i].timestamp # notes[j].timestamp) <=> (notes[i].name # notes[j].name)
            /\ SameExceptCreatedAndUploadDate(notes[i].content, notes[j].content)
            /\ Len(Get(notes[i].env.info.upload_date, <<>>)) = 8 =>
                  SameExceptCreated(notes[i].content, notes[j].content)

\* two successful runs on the same inputs one second apart
C8_Witness ==
    /\ Len(notes) = 2
    /\ SameInputs(notes[1], notes[2])
    /\ notes[2].timestamp = notes[1].timestamp + 1
    /\ notes[1].name # notes[2].name

\* C9: a run copies the audio into the output directory only when
\* --keep-audio is set and only after its note is written; the copy is named
\* <stem>-video-clip.mp3 with the stem of the note, which renders the one
\* timestamp taken at the start of the run; a successful run with
\* --keep-audio has made the copy.
C9_KeepAudio ==
    /\ \A n \in written : IsNoteName(n) \/ IsAudioName(n)
    /\ \A n \in written : Stem(n) = DatePart(timestamp) \o <<"-">> \o TimePart(timestamp, <<"-">>)
    /\ \A n \in written : IsAudioName(n) =>
          /\ args.keep_audio
          /\ note_path \in written
          /\ IsNoteName(note_path)
          /\ Stem(n) = Stem(note_path)
          /\ NoteFile(outDir, note_path).content.complete
    /\ (Exited /\ exitCode = <<0>> /\ args.keep_audio) =>
          \E f \in outDir : f.name \in written /\ IsAudioName(f.name) /\ f.content = AudioContent

\* a successful run with --keep-audio during which the clock advanced
C9_Witness ==
    /\ Exited
    /\ exitCode = <<0>>
    /\ args.keep_audio
    /\ clock > timestamp
    /\ \E n \in written : IsAudioName(n)

\* ---- detect_platform ----
\* the host of a URL (urllib's hostname): the netloc without the user
\* information before "@" and without the port after ":", in lower case
Hostname(url) ==
    LET netloc == urlparse(url).netloc
        ats == {i \in 1..Len(netloc) : netloc[i] = "@"}
        lastAt == IF ats = {} THEN 0 ELSE CHOOSE i \in ats : \A k \in ats : k <= i
        hostinfo == SubSeq(netloc, lastAt + 1, Len(netloc))
    IN  Lower(Slice(hostinfo, 0, FindAny(hostinfo, {":"}, 0)))

\* C5: the result is decided by the host alone, rules in order: host
\* contains "tiktok" -> tiktok; else contains "youtube.com" or "youtu.be"
\* -> youtube; else contains "instagram.com" -> reel; any other host fails
\* with the error that carries the URL; a result is one of tiktok, youtube,
\* reel.
C5_DetectByHost ==
    fn_out # <<>> =>
        LET h == Hostname(fn_in)
            r == fn_out[1]
        IN  /\ r.ok => r.value \in Platforms
            /\ IF Contains(h, W_tiktok)
               THEN r.ok /\ r.value = "tiktok"
               ELSE IF Contains(h, W_youtube_com) \/ Contains(h, W_youtu_be)
               THEN r.ok /\ r.value = "youtube"
               ELSE IF Contains(h, W_instagram_com)
               THEN r.ok /\ r.value = "reel"
               ELSE ~r.ok /\ r.exc = "ValueError" /\ r.url = fn_in

\* ---- format_date ----
DigitSet == {DigitChars[i] : i \in 1..10}

DigitVal(c) == (CHOOSE i \in 1..10 : DigitChars[i] = c) - 1

RECURSIVE Val(_)
Val(ds) ==
    IF ds = <<>> THEN 0 ELSE 10 * Val(SubSeq(ds, 1, Len(ds) - 1)) + DigitVal(ds[Len(ds)])

AllDigits(ds) == \A i \in 1..Len(ds) : ds[i] \in DigitSet

DaysInMonth(y, m) ==
    IF m \in {4, 6, 9, 11} THEN 30
    ELSE IF m = 2 THEN (IF (y % 4 = 0 /\ y % 100 # 0) \/ y % 400 = 0 THEN 29 ELSE 28)
    ELSE 31

\* an 8-digit date code YYYYMMDD that names a date
WellFormedDate(d) ==
    /\ Len(d) = 8
    /\ AllDigits(d)
    /\ Val(SubSeq(d, 1, 4)) >= 1
    /\ Val(SubSeq(d, 5, 6)) \in 1..12
    /\ Val(SubSeq(d, 7, 8)) \in 1..DaysInMonth(Val(SubSeq(d, 1, 4)), Val(SubSeq(d, 5, 6)))

C7_DurationString ==
    fn_out # <<>> =>
        LET d == IF fn_in.present THEN fn_in.value ELSE 0
            o == fn_out[1]
            n == Len(o)
        IN  IF d = 0 THEN o = W_Unknown
            ELSE IF d < 3600
            THEN /\ n = 5
                 /\ o[3] = ":"
                 /\ AllDigits(SubSeq(o, 1, 2)) /\ AllDigits(SubSeq(o, 4, 5))
                 /\ Val(SubSeq(o, 1, 2)) \in 0..59
                 /\ Val(SubSeq(o, 4, 5)) \in 0..59
                 /\ Val(SubSeq(o, 1, 2)) * 60 + Val(SubSeq(o, 4, 5)) = d
            ELSE /\ n >= 8
                 /\ o[n - 2] = ":" /\ o[n - 5] = ":"
                 /\ AllDigits(SubSeq(o, 1, n - 6))
                 /\ AllDigits(SubSeq(o, n - 4, n - 3))
                 /\ AllDigits(SubSeq(o, n - 1, n))
                 /\ Val(SubSeq(o, n - 4, n - 3)) \in 0..59
                 /\ Val(SubSeq(o, n - 1, n)) \in 0..59
                 /\ Val(SubSeq(o, 1, n - 6)) * 3600 + Val(SubSeq(o, n - 4, n - 3)) * 60
                      + Val(SubSeq(o, n - 1, n)) = d

\* 3725 seconds rendered as 01:02:05
C7_Witness ==
    /\ fn_in = Some(3725)
    /\ fn_out = << <<"0", "1", ":", "0", "2", ":", "0", "5">> >>

\* ---- generate_summary ----
\* positions i (1-based) of a '.', '!' or '?' that is followed by whitespace
Boundaries(text) ==
    {i \in 1..(Len(text) - 1) : text[i] \in Punct /\ text[i + 1] \in Whitespace}

NthBoundary(text, n) ==
    CHOOSE b \in Boundaries(text) : Cardinality({c \in Boundaries(text) : c < b}) = n - 1

\* first position after b that is not whitespace, Len(text) + 1 if none
AfterWhitespace(text, b) ==
    CHOOSE q \in (b + 1)..(Len(text) + 1) :
        /\ q = Len(text) + 1 \/ text[q] \notin Whitespace
        /\ \A r \in (b + 1)..(q - 1) : text[r] \in Whitespace

SentenceCount(text) == Cardinality(Boundaries(text)) + 1

\* the n-th sentence: from the end of the whitespace after the previous
\* boundary up to and including the next boundary
Sentence(text, n) ==
    SubSeq(text,
           IF n = 1 THEN 1 ELSE AfterWhitespace(text, NthBoundary(text, n - 1)),
           IF n = SentenceCount(text) THEN Len(text) ELSE NthBoundary(text, n))

\* C10: the summary is the first min(N, number of sentences) sentences, in
\* order, joined by single spaces, where sentences are separated by the
\* whitespace that follows '.', '!' or '?'; N is 2 when not given; with
\* fewer than N sentences all of them are returned; the empty transcript
\* gives the empty summary; the example of the specification gives
\* "Hello world. This is a test.".
C10_Summary ==
    fn_out # <<>> =>
        LET text == fn_in.text
            N == IF fn_in.max_sentences.present THEN fn_in.max_sentences.value ELSE 2
            k == SentenceCount(text)
            m == IF N < k THEN N ELSE k
        IN  /\ fn_out[1] = JoinSpace([n \in 1..m |-> Sentence(text, n)])
            /\ k < N => fn_out[1] = JoinSpace([n \in 1..k |-> Sentence(text, n)])
            /\ text = <<>> => fn_out[1] = <<>>
            /\ (text = W_example /\ N = 2) => fn_out[1] = W_example_summary

\* the example of the specification, with the default N
C10_Witness ==
    /\ fn_in = [text |-> W_example, max_sentences |-> Absent]
    /\ fn_out = <<W_example_summary>>

====
